---- MODULE Spec2Model ----
(***************************************************************************)
(* A model of tools/ann2graf.py: the parser of brat standoff annotation    *)
(* files.  A Python string is a sequence of one-character strings, a list  *)
(* is a sequence, a namedtuple or object is a record.  A call either       *)
(* returns a value, Ok(v), or raises an exception, Raise(e).               *)
(***************************************************************************)
EXTENDS Integers, Sequences, FiniteSets, TLC

VARIABLES
    anno_file,      \* the content of the file parse_annotation is called on
    lines,          \* parse_annotation: the list f.readlines() returned
    idx,            \* parse_annotation: the number of lines the loop has taken
    annotations,    \* parse_annotation: the accumulated list
    pc,             \* parse_annotation: "open", "loop", "returned", "raised"
    result,         \* parse_annotation: what the caller gets
    offsets_str,    \* parse_offsets: its argument
    offsets_out,    \* parse_offsets: its outcome
    arguments_str,  \* parse_arguments: its argument
    arguments_out   \* parse_arguments: its outcome

vars ==
    <<anno_file, lines, idx, annotations, pc, result,
      offsets_str, offsets_out, arguments_str, arguments_out>>

-----------------------------------------------------------------------------
(* Bounds of the model. *)

\* the largest number of lines of an annotation file
MaxLines ==
    3

\* the largest number of space-separated tokens of one group of an offset string
MaxGroupTokens ==
    3

\* the largest number of semicolon-separated groups of an offset string
MaxGroups ==
    2

\* the largest number of space-separated tokens of an argument string
MaxArgs ==
    3

-----------------------------------------------------------------------------
(* Outcomes of a call, and Python values whose type matters. *)

Pending ==
    [state |-> "pending"]

Ok(v) ==
    [state |-> "ok", val |-> v]

Raise(e) ==
    [state |-> "raise", exc |-> e]

PyNone ==
    [kind |-> "None"]

PyInt(n) ==
    [kind |-> "int", n |-> n]

PyStr(s) ==
    [kind |-> "str", s |-> s]

-----------------------------------------------------------------------------
(* The string methods the parser uses. *)

\* string.whitespace, the characters str.rstrip() and int() strip
Whitespace ==
    {" ", "\t", "\n", "\r", "\f"}

Digits ==
    {"0", "1", "2", "3", "4", "5", "6", "7", "8", "9"}

\* index of the first occurrence of the character sep in s, 0 if there is none
find(s, sep) ==
    LET at == {i \in DOMAIN s : s[i] = sep}
    IN  IF at = {} THEN 0 ELSE CHOOSE i \in at : \A j \in at : i <= j

\* s.split(sep): always at least one piece
RECURSIVE split(_, _)
split(s, sep) ==
    LET i == find(s, sep)
    IN  IF i = 0
        THEN <<s>>
        ELSE <<SubSeq(s, 1, i - 1)>> \o split(SubSeq(s, i + 1, Len(s)), sep)

\* s.split(sep, 1): at most one split
split1(s, sep) ==
    LET i == find(s, sep)
    IN  IF i = 0
        THEN <<s>>
        ELSE <<SubSeq(s, 1, i - 1), SubSeq(s, i + 1, Len(s))>>

\* s.rstrip()
RECURSIVE rstrip(_)
rstrip(s) ==
    IF s # <<>> /\ s[Len(s)] \in Whitespace
    THEN rstrip(SubSeq(s, 1, Len(s) - 1))
    ELSE s

\* s.lstrip(), as int() applies it
RECURSIVE lstrip(_)
lstrip(s) ==
    IF s # <<>> /\ s[1] \in Whitespace THEN lstrip(Tail(s)) ELSE s

\* s.startswith(c) for a one-character prefix
startswith(s, c) ==
    s # <<>> /\ s[1] = c

\* the digits of an integer literal, sign and surrounding whitespace removed
int_digits(s) ==
    LET t == lstrip(rstrip(s))
    IN  IF t # <<>> /\ t[1] \in {"+", "-"} THEN Tail(t) ELSE t

\* whether int(s) returns rather than raising ValueError
int_accepts(s) ==
    LET d == int_digits(s)
    IN  d # <<>> /\ \A i \in DOMAIN d : d[i] \in Digits

digit_value(c) ==
    CASE c = "0" -> 0 [] c = "1" -> 1 [] c = "2" -> 2 [] c = "3" -> 3
      [] c = "4" -> 4 [] c = "5" -> 5 [] c = "6" -> 6 [] c = "7" -> 7
      [] c = "8" -> 8 [] c = "9" -> 9

RECURSIVE decimal(_)
decimal(d) ==
    IF d = <<>>
    THEN 0
    ELSE 10 * decimal(SubSeq(d, 1, Len(d) - 1)) + digit_value(d[Len(d)])

\* int(s), for a string int() accepts
int(s) ==
    LET t == lstrip(rstrip(s))
        n == decimal(int_digits(s))
    IN  IF t[1] = "-" THEN 0 - n ELSE n

-----------------------------------------------------------------------------
(* The record types. *)

\* Text(*offsets): a namedtuple of exactly two fields, of whatever type
Text(offsets) ==
    IF Len(offsets) = 2
    THEN Ok([start |-> offsets[1], end |-> offsets[2]])
    ELSE Raise("TypeError")

Trigger(id, type) ==
    [id |-> id, type |-> type]

Argument(id, type) ==
    [id |-> id, type |-> type]

Entity(entity_id, list_of_offsets, text_str) ==
    [cls |-> "Entity", id |-> entity_id, offsets |-> list_of_offsets,
     string |-> text_str]

Event(event_id, trigger, arguments) ==
    [cls |-> "Event", id |-> event_id, trigger |-> trigger,
     arguments |-> arguments]

Relation(relation_id, relation_type, arguments) ==
    [cls |-> "Relation", id |-> relation_id, type |-> relation_type,
     arguments |-> arguments]

Equivalence(relation_type, entities) ==
    [cls |-> "Equivalence", type |-> relation_type, entities |-> entities]

Attribute(attribute_id, attribute_type, annotation_id, attribute_value) ==
    [cls |-> "Attribute", id |-> attribute_id, type |-> attribute_type,
     value |-> attribute_value, annotation_id |-> annotation_id]

Normalization(norm_type, anno_id, resource_id, entry_id, text_str) ==
    [cls |-> "Normalization", norm_type |-> norm_type, anno_id |-> anno_id,
     resource_id |-> resource_id, entry_id |-> entry_id, text_str |-> text_str]

Note(id, type, text, annotation_id) ==
    [cls |-> "Note", id |-> id, type |-> type, text |-> text,
     annotation_id |-> annotation_id]

-----------------------------------------------------------------------------
(* The field parsers. *)

\* one pass of the loop of parse_offsets over the groups of a discontinuous
\* annotation: every token through int(), then Text(*offsets)
RECURSIVE parse_offsets_loop(_, _)
parse_offsets_loop(offsets_strings, list_of_offsets) ==
    IF offsets_strings = <<>>
    THEN Ok(list_of_offsets)
    ELSE LET tokens == split(Head(offsets_strings), " ")
         IN  IF \E i \in DOMAIN tokens : ~int_accepts(tokens[i])
             THEN Raise("ValueError")
             ELSE LET t == Text([i \in DOMAIN tokens |-> PyInt(int(tokens[i]))])
                  IN  IF t.state = "raise"
                      THEN t
                      ELSE parse_offsets_loop(Tail(offsets_strings),
                                              Append(list_of_offsets, t.val))

parse_offsets(offsets_str_) ==
    IF find(offsets_str_, ";") # 0
    THEN parse_offsets_loop(split(offsets_str_, ";"), <<>>)
    ELSE LET offsets == split(offsets_str_, " ")
             t == Text([i \in DOMAIN offsets |-> PyStr(offsets[i])])
         IN  IF t.state = "raise" THEN t ELSE Ok(<<t.val>>)

\* parse_argument as it would be with arg_str.split(':', 1): a token with a
\* second ':' would pass
parse_argument_maxsplit(arg_str) ==
    LET parts == split1(arg_str, ":")
    IN  IF Len(parts) # 2
        THEN Raise("ValueError")
        ELSE Ok(Argument(parts[2], parts[1]))

\* the body of the loop of parse_arguments
parse_argument(arg_str) ==
    LET parts == split(arg_str, ":")
    IN  IF Len(parts) # 2
        THEN Raise("ValueError")
        ELSE Ok(Argument(parts[2], parts[1]))

RECURSIVE parse_arguments_loop(_, _)
parse_arguments_loop(arg_strs, list_of_arguments) ==
    IF arg_strs = <<>>
    THEN Ok(list_of_arguments)
    ELSE LET a == parse_argument(Head(arg_strs))
         IN  IF a.state = "raise"
             THEN a
             ELSE parse_arguments_loop(Tail(arg_strs),
                                       Append(list_of_arguments, a.val))

parse_arguments(arguments_str_) ==
    IF rstrip(arguments_str_) # <<>>
    THEN parse_arguments_loop(split(arguments_str_, " "), <<>>)
    ELSE Ok(<<>>)

parse_attribute(attribute_id, attribute_str) ==
    LET attribute_list == split(attribute_str, " ")
    IN  IF Len(attribute_list) = 2
        THEN Ok(Attribute(attribute_id, attribute_list[1], attribute_list[2],
                          PyNone))
        ELSE IF Len(attribute_list) = 3
        THEN Ok(Attribute(attribute_id, attribute_list[1], attribute_list[2],
                          PyStr(attribute_list[3])))
        ELSE Raise("ValueError")

parse_normalization(normalization_str, entity_str) ==
    LET parts == split(normalization_str, " ")
    IN  IF Len(parts) # 3
        THEN Raise("ValueError")
        ELSE LET resource == split(parts[3], ":")
             IN  IF Len(resource) # 2
                 THEN Raise("ValueError")
                 ELSE Ok(Normalization(parts[1], parts[2], resource[1],
                                       resource[2], entity_str))

-----------------------------------------------------------------------------
(* The record classifier: the body of the loop of parse_annotation. *)

\* columns_assert as it would be with its lower limit off by one:
\* assert 0 < len(columns) < 4
columns_assert_from_one(columns) ==
    0 < Len(columns) /\ Len(columns) < 4

\* assert 1 < len(columns) < 4
columns_assert(columns) ==
    1 < Len(columns) /\ Len(columns) < 4

\* branch as it would be with anno_id.startswith("*") for the equivalence
branch_star_prefix(anno_id) ==
    IF startswith(anno_id, "T") THEN "entity"
    ELSE IF startswith(anno_id, "E") THEN "event"
    ELSE IF startswith(anno_id, "R") THEN "relation"
    ELSE IF startswith(anno_id, "*") THEN "equivalence"
    ELSE IF startswith(anno_id, "A") \/ startswith(anno_id, "M") THEN "attribute"
    ELSE IF startswith(anno_id, "N") THEN "normalization"
    ELSE IF startswith(anno_id, "#") THEN "note"
    ELSE "none"

\* branch as it would be with its last elif written as else
branch_else_note(anno_id) ==
    IF startswith(anno_id, "T") THEN "entity"
    ELSE IF startswith(anno_id, "E") THEN "event"
    ELSE IF startswith(anno_id, "R") THEN "relation"
    ELSE IF anno_id = <<"*">> THEN "equivalence"
    ELSE IF startswith(anno_id, "A") \/ startswith(anno_id, "M") THEN "attribute"
    ELSE IF startswith(anno_id, "N") THEN "normalization"
    ELSE "note"

\* the if/elif chain on anno_id: the branch taken, "none" when no test holds
branch(anno_id) ==
    IF startswith(anno_id, "T") THEN "entity"
    ELSE IF startswith(anno_id, "E") THEN "event"
    ELSE IF startswith(anno_id, "R") THEN "relation"
    ELSE IF anno_id = <<"*">> THEN "equivalence"
    ELSE IF startswith(anno_id, "A") \/ startswith(anno_id, "M") THEN "attribute"
    ELSE IF startswith(anno_id, "N") THEN "normalization"
    ELSE IF startswith(anno_id, "#") THEN "note"
    ELSE "none"

entity_branch(anno_id, columns) ==
    LET parts == split1(columns[2], " ")
    IN  IF Len(parts) # 2
        THEN Raise("ValueError")
        ELSE LET list_of_offsets == parse_offsets(parts[2])
             IN  IF list_of_offsets.state = "raise"
                 THEN list_of_offsets
                 ELSE IF Len(columns) < 3
                 THEN Raise("IndexError")
                 ELSE Ok(Entity(anno_id, list_of_offsets.val,
                                rstrip(columns[3])))

event_branch(anno_id, columns) ==
    LET parts == split1(columns[2], " ")
    IN  IF Len(parts) # 2
        THEN Raise("ValueError")
        ELSE LET trigger == split(parts[1], ":")
             IN  IF Len(trigger) # 2
                 THEN Raise("ValueError")
                 ELSE LET arguments == parse_arguments(parts[2])
                      IN  IF arguments.state = "raise"
                          THEN arguments
                          ELSE Ok(Event(anno_id,
                                        Trigger(trigger[2], trigger[1]),
                                        arguments.val))

relation_branch(anno_id, columns) ==
    LET parts == split1(columns[2], " ")
    IN  IF Len(parts) # 2
        THEN Raise("ValueError")
        ELSE LET arguments == parse_arguments(parts[2])
             IN  IF arguments.state = "raise"
                 THEN arguments
                 ELSE Ok(Relation(anno_id, parts[1], arguments.val))

equivalence_branch(anno_id, columns) ==
    LET parts == split1(columns[2], " ")
    IN  IF Len(parts) # 2
        THEN Raise("ValueError")
        ELSE Ok(Equivalence(parts[1], split(parts[2], " ")))

normalization_branch(anno_id, columns) ==
    IF Len(columns) < 3
    THEN Raise("IndexError")
    ELSE parse_normalization(columns[2], columns[3])

note_branch(anno_id, columns) ==
    LET parts == split(columns[2], " ")
    IN  IF Len(parts) # 2
        THEN Raise("ValueError")
        ELSE IF Len(columns) < 3
        THEN Raise("IndexError")
        ELSE Ok(Note(anno_id, parts[1], rstrip(columns[3]), parts[2]))

\* What one pass of the loop does with a line: Raise(e), or Ok(<<anno>>) when
\* a record is appended, or Ok(<<>>) when no branch is taken.
classify(line) ==
    LET columns == split(line, "\t")
        anno_id == columns[1]
        b == branch(anno_id)
        anno == IF Len(columns) < 2
                THEN Raise("IndexError")    \* columns[1], first in every branch
                ELSE CASE b = "entity" -> entity_branch(anno_id, columns)
                  [] b = "event" -> event_branch(anno_id, columns)
                  [] b = "relation" -> relation_branch(anno_id, columns)
                  [] b = "equivalence" -> equivalence_branch(anno_id, columns)
                  [] b = "attribute" -> parse_attribute(anno_id, columns[2])
                  [] b = "normalization" -> normalization_branch(anno_id, columns)
                  [] b = "note" -> note_branch(anno_id, columns)
    IN  IF ~columns_assert(columns)
        THEN Raise("AssertionError")
        ELSE IF b = "none"
        THEN Ok(<<>>)
        ELSE IF anno.state = "raise"
        THEN anno
        ELSE Ok(<<anno.val>>)

-----------------------------------------------------------------------------
(* The inputs. *)

\* the lines a file is made of, without their line terminator
LineBodies ==
    { <<"T", "1", "\t", "P", " ", "0", " ", "5", "\t", "J">>,    \* "T1\tP 0 5\tJ"
      <<"T", "3", "\t", "P", " ", "0", "\t", "J">>,    \* "T3\tP 0\tJ"
      <<"T", "4">>,    \* "T4"
      <<"E", "1", "\t", "M", ":", "T", "2", " ", "a", ":", "T", "1", " ", "b", ":", "T", "3">>,    \* "E1\tM:T2 a:T1 b:T3"
      <<"E", "2", "\t", "M", ":", "T", "2", " ">>,    \* "E2\tM:T2 "
      <<"E", "3", "\t", "M", ":", "T", "2">>,    \* "E3\tM:T2"
      <<"R", "1", "\t", "O", " ", "a", ":", "T", "1", " ", "b", ":", "T", "3">>,    \* "R1\tO a:T1 b:T3"
      <<"*", "\t", "Q", " ", "T", "1", " ", "T", "3">>,    \* "*\tQ T1 T3"
      <<"*", "1", "\t", "Q", " ", "T", "1", " ", "T", "3">>,    \* "*1\tQ T1 T3"
      <<"A", "1", "\t", "N", " ", "E", "1">>,    \* "A1\tN E1"
      <<"N", "1", "\t", "F", " ", "T", "1", " ", "W", ":", "5", "\t", "J">>,    \* "N1\tF T1 W:5\tJ"
      <<"#", "1", "\t", "G", " ", "T", "1", "\t", "J">>,    \* "#1\tG T1\tJ"
      <<"#", "2", "\t", "G", " ", "T", "1">>,    \* "#2\tG T1"
      <<"Z", "1", "\t", "P", " ", "0", " ", "5", "\t", "J">>,    \* "Z1\tP 0 5\tJ"
      <<>>,    \* ""
      <<"Z", "3">>,    \* "Z3"
      <<"Z", "4", "\t", "a", "\t", "b", "\t", "c">> }    \* "Z4\ta\tb\tc"

\* f.readlines() on a file of the lines b: every line ends in "\n", except
\* that the last line lacks it when the file does not end in a line terminator
readlines(b, terminated) ==
    [i \in DOMAIN b |->
        IF i < Len(b) \/ terminated THEN b[i] \o <<"\n">> ELSE b[i]]

-----------------------------------------------------------------------------
(* parse_annotation as a state machine: one action per step of the call. *)

Init ==
    /\ \E n \in 0..MaxLines : \E b \in [1..n -> LineBodies] :
          \E terminated \in BOOLEAN :
             /\ ~terminated => (n > 0 /\ b[n] # <<>>)
             /\ anno_file = readlines(b, terminated)
    /\ lines = <<>>
    /\ idx = 0
    /\ annotations = <<>>
    /\ pc = "open"
    /\ result = Pending
    /\ offsets_str = <<>>
    /\ offsets_out = Pending
    /\ arguments_str = <<>>
    /\ arguments_out = Pending

\* annotations = []; open the file; lines = f.readlines()
ReadLines ==
    /\ pc = "open"
    /\ lines' = anno_file
    /\ pc' = "loop"
    /\ UNCHANGED <<anno_file, idx, annotations, result,
                   offsets_str, offsets_out, arguments_str, arguments_out>>

\* a pass of the loop that appends a record
LineAppends ==
    /\ pc = "loop"
    /\ idx < Len(lines)
    /\ LET c == classify(lines[idx + 1])
       IN  /\ c.state = "ok"
           /\ c.val # <<>>
           /\ annotations' = Append(annotations, c.val[1])
    /\ idx' = idx + 1
    /\ UNCHANGED <<anno_file, lines, pc, result,
                   offsets_str, offsets_out, arguments_str, arguments_out>>

\* a pass of the loop in which no branch of the chain is taken
LineIgnored ==
    /\ pc = "loop"
    /\ idx < Len(lines)
    /\ LET c == classify(lines[idx + 1])
       IN  /\ c.state = "ok"
           /\ c.val = <<>>
    /\ idx' = idx + 1
    /\ UNCHANGED <<anno_file, lines, annotations, pc, result,
                   offsets_str, offsets_out, arguments_str, arguments_out>>

\* LineRaises as it would be if the error of a line were caught and the line
\* skipped
LineRaises_and_continues ==
    /\ pc = "loop"
    /\ idx < Len(lines)
    /\ classify(lines[idx + 1]).state = "raise"
    /\ idx' = idx + 1
    /\ UNCHANGED <<anno_file, lines, annotations, pc, result,
                   offsets_str, offsets_out, arguments_str, arguments_out>>

\* a pass of the loop that raises: the exception leaves parse_annotation
LineRaises ==
    /\ pc = "loop"
    /\ idx < Len(lines)
    /\ LET c == classify(lines[idx + 1])
       IN  /\ c.state = "raise"
           /\ result' = c
    /\ pc' = "raised"
    /\ UNCHANGED <<anno_file, lines, idx, annotations,
                   offsets_str, offsets_out, arguments_str, arguments_out>>

\* the loop is over: return annotations
Return ==
    /\ pc = "loop"
    /\ idx = Len(lines)
    /\ result' = Ok(annotations)
    /\ pc' = "returned"
    /\ UNCHANGED <<anno_file, lines, idx, annotations,
                   offsets_str, offsets_out, arguments_str, arguments_out>>

Next ==
    \/ ReadLines
    \/ LineAppends
    \/ LineIgnored
    \/ LineRaises
    \/ Return

Spec ==
    Init /\ [][Next]_vars

-----------------------------------------------------------------------------
(* parse_offsets and parse_arguments called on their own: the argument is   *)
(* drawn in Init and the one call is the only step.                         *)

\* sep.join(pieces)
RECURSIVE join(_, _)
join(sep, pieces) ==
    IF pieces = <<>>
    THEN <<>>
    ELSE IF Len(pieces) = 1
    THEN pieces[1]
    ELSE pieces[1] \o <<sep>> \o join(sep, Tail(pieces))

\* the tokens offset strings are made of
OffsetTokens ==
    { <<"0">>,    \* "0"
      <<"1", "2">>,    \* "12"
      <<"x">>,    \* "x"
      <<"-", "3">>,    \* "-3"
      <<>> }    \* ""

\* the tokens argument strings are made of
ArgumentTokens ==
    { <<"a", ":", "T", "1">>,    \* "a:T1"
      <<"b", ":", "T", "3">>,    \* "b:T3"
      <<"a", "T", "1">>,    \* "aT1"
      <<"a", ":", "T", "1", ":", "x">>,    \* "a:T1:x"
      <<>> }    \* ""

\* what follows the last token of an argument string
ArgumentSuffixes ==
    { <<>>,    \* ""
      <<" ">>,    \* " "
      <<" ", " ">>,    \* "  "
      <<"\n">> }    \* "\n"

OffsetGroups ==
    {join(" ", t) : t \in UNION {[1..n -> OffsetTokens] : n \in 1..MaxGroupTokens}}

InitOffsets ==
    /\ \E n \in 1..MaxGroups : \E g \in [1..n -> OffsetGroups] :
          offsets_str = join(";", g)
    /\ offsets_out = Pending
    /\ anno_file = <<>>
    /\ lines = <<>>
    /\ idx = 0
    /\ annotations = <<>>
    /\ pc = "idle"
    /\ result = Pending
    /\ arguments_str = <<>>
    /\ arguments_out = Pending

\* parse_offsets(offsets_str) returns
OffsetsReturn ==
    /\ offsets_out = Pending
    /\ parse_offsets(offsets_str).state = "ok"
    /\ offsets_out' = parse_offsets(offsets_str)
    /\ UNCHANGED <<anno_file, lines, idx, annotations, pc, result,
                   offsets_str, arguments_str, arguments_out>>

\* parse_offsets(offsets_str) raises
OffsetsRaise ==
    /\ offsets_out = Pending
    /\ parse_offsets(offsets_str).state = "raise"
    /\ offsets_out' = parse_offsets(offsets_str)
    /\ UNCHANGED <<anno_file, lines, idx, annotations, pc, result,
                   offsets_str, arguments_str, arguments_out>>

NextOffsets ==
    \/ OffsetsReturn
    \/ OffsetsRaise

SpecOffsets ==
    InitOffsets /\ [][NextOffsets]_vars

InitArguments ==
    /\ \E n \in 0..MaxArgs : \E t \in [1..n -> ArgumentTokens] :
          \E suffix \in ArgumentSuffixes :
             arguments_str = join(" ", t) \o suffix
    /\ arguments_out = Pending
    /\ anno_file = <<>>
    /\ lines = <<>>
    /\ idx = 0
    /\ annotations = <<>>
    /\ pc = "idle"
    /\ result = Pending
    /\ offsets_str = <<>>
    /\ offsets_out = Pending

\* parse_arguments(arguments_str) returns
ArgumentsReturn ==
    /\ arguments_out = Pending
    /\ parse_arguments(arguments_str).state = "ok"
    /\ arguments_out' = parse_arguments(arguments_str)
    /\ UNCHANGED <<anno_file, lines, idx, annotations, pc, result,
                   offsets_str, offsets_out, arguments_str>>

\* parse_arguments(arguments_str) raises
ArgumentsRaise ==
    /\ arguments_out = Pending
    /\ parse_arguments(arguments_str).state = "raise"
    /\ arguments_out' = parse_arguments(arguments_str)
    /\ UNCHANGED <<anno_file, lines, idx, annotations, pc, result,
                   offsets_str, offsets_out, arguments_str>>

NextArguments ==
    \/ ArgumentsReturn
    \/ ArgumentsRaise

SpecArguments ==
    InitArguments /\ [][NextArguments]_vars

-----------------------------------------------------------------------------
(* The vocabulary of the properties: a line seen as text, without the      *)
(* parser.                                                                 *)

\* the number of tab-separated columns of a line
ColumnCount(line) ==
    Cardinality({i \in DOMAIN line : line[i] = "\t"}) + 1

\* the identifier of a line: the text before its first tab
Column0(line) ==
    LET tabs == {i \in DOMAIN line : line[i] = "\t"}
    IN  IF tabs = {}
        THEN line
        ELSE SubSeq(line, 1, (CHOOSE i \in tabs : \A j \in tabs : i <= j) - 1)

RecognizedPrefixes ==
    {"T", "E", "R", "*", "A", "M", "N", "#"}

\* the identifier of the line begins with one of the recognized prefixes
HasRecognizedPrefix(line) ==
    Column0(line) # <<>> /\ Column0(line)[1] \in RecognizedPrefixes

\* the same, with "*" recognized only as the whole identifier
HasRecognizedIdentifier(line) ==
    /\ HasRecognizedPrefix(line)
    /\ Column0(line)[1] = "*" => Column0(line) = <<"*">>

\* the class of the record of a line with a recognized prefix
ClassOfPrefix(c) ==
    CASE c = "T" -> "Entity"
      [] c = "E" -> "Event"
      [] c = "R" -> "Relation"
      [] c = "*" -> "Equivalence"
      [] c \in {"A", "M"} -> "Attribute"
      [] c = "N" -> "Normalization"
      [] c = "#" -> "Note"

\* annos holds one record per line of from, in order: a record of the class
\* of the line's prefix, with the line's identifier where the class has one
RecordsOf(annos, from) ==
    /\ Len(annos) = Len(from)
    /\ \A k \in DOMAIN annos :
          /\ annos[k].cls = ClassOfPrefix(Column0(from[k])[1])
          /\ annos[k].cls \in {"Entity", "Event", "Relation", "Attribute", "Note"}
                => annos[k].id = Column0(from[k])

IsPrefix(s, t) ==
    Len(s) <= Len(t) /\ s = SubSeq(t, 1, Len(s))

\* the line the loop is at, when it is at one
AtLine ==
    pc = "loop" /\ idx < Len(lines)

-----------------------------------------------------------------------------
(* Properties of parse_annotation, under Spec. *)

\* C1: a line whose split on the tab gives a number of columns other than 2
\* or 3 (an empty line and a line without a tab included) fails with an error
\* and yields no record, whatever its first character is: the column count is
\* checked before the dispatch on the prefix.
C1_ColumnCountChecked ==
    [][(AtLine /\ ColumnCount(lines[idx + 1]) \notin {2, 3})
          => /\ pc' = "raised"
             /\ result'.state = "raise"
             /\ annotations' = annotations
             /\ idx' = idx]_vars

\* a line of one or four columns that begins with an unrecognized prefix
\* has raised
C1_Witness ==
    /\ pc = "raised"
    /\ ColumnCount(lines[idx + 1]) \notin {2, 3}
    /\ ~HasRecognizedPrefix(lines[idx + 1])
    /\ lines[idx + 1][1] \notin Whitespace

\* C2: a line of 2 or 3 columns whose identifier begins with none of the
\* recognized prefixes is not an error and produces no record: the
\* accumulated sequence is unchanged and the loop goes on to the next line.
C2_UnrecognizedIgnored ==
    [][(/\ AtLine
        /\ ColumnCount(lines[idx + 1]) \in {2, 3}
        /\ ~HasRecognizedPrefix(lines[idx + 1]))
          => /\ pc' = "loop"
             /\ idx' = idx + 1
             /\ annotations' = annotations
             /\ result' = result]_vars

\* the loop has passed a line with an unrecognized prefix after appending a
\* record, and is at the next line
C2_Witness ==
    /\ AtLine
    /\ idx >= 2
    /\ ColumnCount(lines[idx]) \in {2, 3}
    /\ ~HasRecognizedPrefix(lines[idx])
    /\ Len(annotations) = 1

Fails(line) ==
    ColumnCount(line) \notin {2, 3} \/ classify(line).state = "raise"

\* C10: parse_annotation is fail-fast: when a line fails, the call ends at
\* that line with the error and returns no sequence; no later line is
\* classified, and the loop never passes a failing line.
C10_FailFast ==
    [][/\ pc # "raised"
       /\ (AtLine /\ Fails(lines[idx + 1]))
             => /\ pc' = "raised"
                /\ result'.state = "raise"
                /\ idx' = idx
                /\ annotations' = annotations
       /\ idx' = idx + 1 => ~Fails(lines[idx + 1])
       /\ result'.state = "ok" => pc' = "returned"]_vars

\* the second line of three has failed after the first gave a record: the
\* third is not read and the record is not delivered
C10_Witness ==
    /\ pc = "raised"
    /\ idx = 1
    /\ Len(annotations) = 1
    /\ Len(lines) = 3
    /\ result.state = "raise"

\* the text of a line as read, without its line terminator
Body(line) ==
    IF line # <<>> /\ line[Len(line)] = "\n"
    THEN SubSeq(line, 1, Len(line) - 1)
    ELSE line

\* the number of ':' of a token
ColonCount(token) ==
    Cardinality({i \in DOMAIN token : token[i] = ":"})

\* the text of a token before and after its ':', for a token with one ':'
BeforeColon(token) ==
    SubSeq(token, 1, (CHOOSE i \in DOMAIN token : token[i] = ":") - 1)

AfterColon(token) ==
    SubSeq(token, (CHOOSE i \in DOMAIN token : token[i] = ":") + 1, Len(token))

\* the space-separated tokens of a text, in order
TokensOf(text) ==
    split(text, " ")

\* the (identifier, role) pairs written by a sequence of role:identifier tokens
PairsOf(tokens) ==
    [i \in DOMAIN tokens |-> Argument(AfterColon(tokens[i]), BeforeColon(tokens[i]))]

\* an event line as read from the file: two columns, an identifier E<n>, the
\* line terminator, and k + 1 >= 1 tokens of the form x:y
IsEventLine(line) ==
    /\ line # <<>> /\ line[1] = "E" /\ line[Len(line)] = "\n"
    /\ ColumnCount(line) = 2
    /\ \A i \in DOMAIN TokensOf(split(Body(line), "\t")[2]) :
          ColonCount(TokensOf(split(Body(line), "\t")[2])[i]) = 1

\* the Event an event line describes
EventOf(line) ==
    LET tokens == TokensOf(split(Body(line), "\t")[2])
    IN  Event(Column0(line),
              Trigger(AfterColon(tokens[1]), BeforeColon(tokens[1])),
              PairsOf(Tail(tokens)))

\* C7: for an event line as read from the file, E<n> TAB <type>:<triggerId>
\* <role1>:<id1> ... <rolek>:<idk> and the line terminator, the record
\* appended is the Event of identifier column 0, trigger (triggerId, type) and
\* arguments [(id1, role1), ..., (idk, rolek)], each identifier as written:
\* no identifier holds a line terminator.
C7_EventAsWritten ==
    (pc = "loop" /\ idx >= 1 /\ IsEventLine(lines[idx]))
        => /\ annotations # <<>>
           /\ annotations[Len(annotations)] = EventOf(lines[idx])
           /\ \A j \in DOMAIN annotations[Len(annotations)].arguments :
                 \A c \in DOMAIN annotations[Len(annotations)].arguments[j].id :
                    annotations[Len(annotations)].arguments[j].id[c] # "\n"

\* C8: an event line whose column 1 is <type>:<triggerId> alone, with no
\* space after the trigger, is classified without error as the Event of that
\* trigger and no argument.
C8_EventWithoutArguments ==
    /\ (pc = "raised" /\ IsEventLine(lines[idx + 1]))
          => Len(TokensOf(split(Body(lines[idx + 1]), "\t")[2])) # 1
    /\ (pc = "loop" /\ idx >= 1 /\ IsEventLine(lines[idx])
          /\ Len(TokensOf(split(Body(lines[idx]), "\t")[2])) = 1)
          => /\ annotations # <<>>
             /\ annotations[Len(annotations)] = EventOf(lines[idx])

-----------------------------------------------------------------------------
(* Properties of parse_offsets, under SpecOffsets. *)

\* the decimal numeral of a natural number
RECURSIVE Numeral(_)
Numeral(n) ==
    LET last == CHOOSE c \in Digits : digit_value(c) = n % 10
    IN  IF n < 10 THEN <<last>> ELSE Numeral(n \div 10) \o <<last>>

\* the offsets the properties are stated for
OffsetValues ==
    {0, 12}

Span(a, b) ==
    [start |-> PyInt(a), end |-> PyInt(b)]

\* C4: for a valid offset string, parse_offsets returns the spans as pairs of
\* integers in the order written: "a b" gives the one Span(a, b), "a b;c d"
\* gives Span(a, b) and Span(c, d), and both paths give integers.
C4_SpansAreIntegers ==
    offsets_out.state # "pending" =>
        \A a, b \in OffsetValues :
            /\ offsets_str = Numeral(a) \o <<" ">> \o Numeral(b)
                  => offsets_out = Ok(<<Span(a, b)>>)
            /\ \A c, d \in OffsetValues :
                  offsets_str = Numeral(a) \o <<" ">> \o Numeral(b) \o <<";">>
                                \o Numeral(c) \o <<" ">> \o Numeral(d)
                     => offsets_out = Ok(<<Span(a, b), Span(c, d)>>)

\* a token that is a non-negative integer
IsNonNegativeInteger(token) ==
    token # <<>> /\ \A i \in DOMAIN token : token[i] \in Digits

\* a group that is two non-negative integers separated by one space
IsPair(group) ==
    /\ Len(TokensOf(group)) = 2
    /\ \A i \in DOMAIN TokensOf(group) : IsNonNegativeInteger(TokensOf(group)[i])

\* C5: parse_offsets fails whenever a semicolon-separated group of its input
\* is not two tokens separated by one space, or a token is not a non-negative
\* integer, with or without a semicolon in the input.
C5_MalformedOffsetsFail ==
    (/\ offsets_out.state # "pending"
     /\ \E g \in DOMAIN split(offsets_str, ";") : ~IsPair(split(offsets_str, ";")[g]))
        => offsets_out.state = "raise"

-----------------------------------------------------------------------------
(* Properties of parse_arguments, under SpecArguments. *)

IsBlank(text) ==
    \A i \in DOMAIN text : text[i] \in Whitespace

\* a well-formed role:identifier token
IsArgumentToken(token) ==
    /\ ColonCount(token) = 1
    /\ \A i \in DOMAIN token : token[i] \notin Whitespace
    /\ BeforeColon(token) # <<>> /\ AfterColon(token) # <<>>

\* the text without the whitespace that follows its last token
WithoutTrailing(text) ==
    IF IsBlank(text)
    THEN <<>>
    ELSE SubSeq(text, 1, CHOOSE i \in DOMAIN text :
                            /\ text[i] \notin Whitespace
                            /\ \A j \in (i + 1)..Len(text) : text[j] \in Whitespace)

\* C6: parse_arguments returns the empty sequence for an empty or
\* whitespace-only input; for well-formed role:identifier tokens separated by
\* single spaces it returns one (identifier, role) pair per token, in order,
\* also when whitespace follows the last token.
C6_TrailingWhitespace ==
    arguments_out.state # "pending" =>
        /\ IsBlank(arguments_str) => arguments_out = Ok(<<>>)
        /\ (/\ ~IsBlank(arguments_str)
            /\ \A i \in DOMAIN TokensOf(WithoutTrailing(arguments_str)) :
                  IsArgumentToken(TokensOf(WithoutTrailing(arguments_str))[i]))
              => arguments_out = Ok(PairsOf(TokensOf(WithoutTrailing(arguments_str))))

\* C9: parse_arguments fails whenever its input is not empty or
\* whitespace-only and one of its space-separated tokens does not hold
\* exactly one ':', also when the tokens before it are well formed.
C9_MalformedArgumentFails ==
    (/\ arguments_out.state # "pending"
     /\ ~IsBlank(arguments_str)
     /\ \E i \in DOMAIN TokensOf(arguments_str) :
           ColonCount(TokensOf(arguments_str)[i]) # 1)
        => arguments_out.state = "raise"

\* the call has failed on an input whose first token is well formed and
\* whose last token holds two ':'
C9_Witness ==
    /\ arguments_out.state = "raise"
    /\ Len(TokensOf(arguments_str)) >= 2
    /\ IsArgumentToken(TokensOf(arguments_str)[1])
    /\ ColonCount(TokensOf(arguments_str)[Len(TokensOf(arguments_str))]) = 2
    /\ \A i \in 1..(Len(TokensOf(arguments_str)) - 1) :
          IsArgumentToken(TokensOf(arguments_str)[i])

====
